---- MODULE Spec2Model ----
(***************************************************************************)
(* Batch-fetch pipeline of top-earning100: the batch plan and worker pool  *)
(* of scrape/votes.ts and scrape/favorites.ts, the pacer and the resilient *)
(* fetcher they call, the favorites freshness cache, and the favorites    *)
(* refresh and row merge of jobs/topEarning1500Enriched.ts.                *)
(***************************************************************************)
EXTENDS Integers, Sequences, FiniteSets, TLC

VARIABLES
  \* ---- one call of fetchVotesBatch / fetchFavoritesCountBatch
  mode,         \* "none" | "votes" | "favorites": which function was called
  pc,           \* "idle" | "running" | "resolved" | "rejected": the call's promise
  universeIds,  \* the caller's list (JS numbers)
  opts,         \* the caller's options; a field is {} (absent) or {n}
  batchSize,    \* votes.ts:27 (1 for favorites: one id per request)
  concurrency,  \* votes.ts:28 / favorites.ts:10
  uniq,         \* votes.ts:31 / favorites.ts:13
  batches,      \* votes.ts:32 (favorites: unused, <<>>)
  idx,          \* the shared cursor (number of chunk indices handed out)
  w,            \* the workers: sequence of [st, my]
  out,          \* the shared result map
  ret,          \* what the caller received: {} nothing yet, {map} the map
  err,          \* the rejection reason seen by the caller: {} or {chunk index}
  fetched,      \* chunk index -> number of fetchJsonWithRetry calls made for it
  claims,       \* chunk index -> set of workers that took it from the cursor
  failedAt,     \* chunk indices whose fetch failed terminally, in order
  settledAt,    \* chunk index -> Date.now() when its fetch settled: {} not yet, {t}
  \* ---- one RateLimiter and the tasks calling wait() on it
  pInterval,    \* minIntervalMs the limiter was built with
  pNow,         \* the clock
  pLast,        \* the last dispatch instant: {} none yet, {t}
  pQueue,       \* the callers blocked in wait(), oldest first
  pSt,          \* caller -> "idle" | "blocked" | "released"
  pGrants,      \* the grants so far: [who, called, at], in grant order
  \* ---- one call of fetchJsonWithRetry
  fPolicy,      \* the retry policy passed by the caller
  fPhase,       \* "idle" | "request" | "sleeping" | "ok" | "failed"
  fAttempt,     \* the attempt counter
  fRequests,    \* requests issued so far
  fSleeps,      \* the backoff sleeps so far, in order
  fSeen,        \* the responses received so far: first and last, and how many retryable
  fError,       \* the error the call failed with: {} or {[kind, cause]}
  \* ---- the favorites cache (cache/favoritesCache.ts)
  file,         \* the cache file on disk: [cond, val]
  cLoaded,      \* what loadFavoritesCache returned: {} not called yet, {value}
  cache,        \* the CacheFile object in memory, as mutated since: {} or {value}
  now,          \* Date.now()
  cTicks,       \* how often the clock has moved
  cLast,        \* the last cache call and what it returned
  cArgs,        \* the arguments of that call, the instant and the cache it was given
  cThrew,       \* the cache calls that raised an exception
  \* ---- one run of the enrichment job (jobs/topEarning1500Enriched.ts)
  jPc,          \* "unused" | "start" | "fetching" | "rows" | "fallback" | "done" | "crashed"
  items,        \* the universe IDs of the ranking, in rank order
  details,      \* byId: universe ID -> {} no details, {[isPaidAccess, price, rootPlaceId]}
  jSplit,       \* the split: <<>> not done, [at, cache, stale]
  jI,           \* the item the row loop is at
  jPaid,        \* paidAccess and paidAccessPrice of that item while the fallback is awaited
  jRows,        \* rows pushed so far
  jFallbacks,   \* the fetchPaidAccessFromPlaceDetails calls: [item, known, got]
  jSaves,       \* the caches passed to saveFavoritesCache, in order
  \* ---- the fetchJsonWithRetry calls of one batch run, on the limiter's clock
  rAttempt,     \* worker -> the attempt counter of its fetchJsonWithRetry call
  rWake,        \* worker -> {} or {the instant its backoff sleep ends}
  rRequests     \* the outbound requests so far: [who, my, attempt, at], in order

batchVars == <<mode, pc, universeIds, opts, batchSize, concurrency, uniq, batches,
               idx, w, out, ret, err, fetched, claims, failedAt, settledAt>>

pacerVars == <<pInterval, pNow, pLast, pQueue, pSt, pGrants>>

fetchVars == <<fPolicy, fPhase, fAttempt, fRequests, fSleeps, fSeen, fError>>

cacheVars == <<file, cLoaded, cache, now, cTicks, cLast, cArgs, cThrew>>

jobVars == <<jPc, items, details, jSplit, jI, jPaid, jRows, jFallbacks, jSaves>>

retryVars == <<rAttempt, rWake, rRequests>>

vars == <<batchVars, pacerVars, fetchVars, cacheVars, jobVars, retryVars>>

\* ------------------------------------------------------------------ bounds
MaxLen == 4        \* longest input list of the plan specification
MaxSubjects == 3   \* most distinct valid IDs of a batch run
MaxCallers == 3    \* tasks sharing one limiter
MaxWaits == 3      \* wait() calls on one limiter
MaxInterval == 2   \* largest minIntervalMs of the pacer specification
MaxTime == 4       \* last instant of the pacer's clock
MaxTicks == 1      \* clock moves of the cache specification
MaxCacheId == 2    \* largest universe ID of the cache specification

\* ------------------------------------- the parts before they are used
EmptyMap == [x \in {} |-> 0]

\* No call of a batch function has been made.
IdleCall ==
  /\ mode = "none"
  /\ pc = "idle"
  /\ batchSize = 0
  /\ concurrency = 0
  /\ uniq = <<>>
  /\ batches = <<>>
  /\ idx = 0
  /\ w = <<>>
  /\ out = EmptyMap
  /\ ret = {}
  /\ err = {}
  /\ fetched = <<>>
  /\ claims = <<>>
  /\ failedAt = <<>>
  /\ settledAt = <<>>

\* No limiter has been built.
PacerUnused ==
  /\ pInterval = 0
  /\ pNow = 0
  /\ pLast = {}
  /\ pQueue = <<>>
  /\ pSt = <<>>
  /\ pGrants = <<>>

\* No fetchJsonWithRetry call has been made.
FetchUnused ==
  /\ fPolicy = <<>>
  /\ fPhase = "idle"
  /\ fAttempt = 0
  /\ fRequests = 0
  /\ fSleeps = <<>>
  /\ fSeen = <<>>
  /\ fError = {}

\* No cache file is in use.
CacheUnused ==
  /\ file = <<>>
  /\ cLoaded = {}
  /\ cache = {}
  /\ now = 0
  /\ cTicks = 0
  /\ cLast = <<>>
  /\ cArgs = <<>>
  /\ cThrew = {}

\* No job is running.
JobUnused ==
  /\ jPc = "unused"
  /\ items = <<>>
  /\ details = <<>>
  /\ jSplit = <<>>
  /\ jI = 0
  /\ jPaid = <<>>
  /\ jRows = <<>>
  /\ jFallbacks = <<>>
  /\ jSaves = <<>>

RetriesUnused ==
  /\ rAttempt = <<>>
  /\ rWake = <<>>
  /\ rRequests = <<>>

\* ------------------------------------------------------------ JS numbers
\* A JS number: a finite integer, NaN or Infinity.
Num(n) == [k |-> "num", v |-> n]
NaN == [k |-> "nan", v |-> 0]
PosInf == [k |-> "inf", v |-> 1]

\* Number.isFinite(n)
IsFinite(x) == x.k = "num"

\* n > 0 (NaN compares false with everything)
GreaterThanZero(x) == x.k # "nan" /\ x.v > 0

Min(a, b) == IF a < b THEN a ELSE b
Max(a, b) == IF a > b THEN a ELSE b

\* opts?.field ?? dflt
OrDefault(o, dflt) == IF o = {} THEN dflt ELSE CHOOSE x \in o : TRUE

The(o) == CHOOSE x \in o : TRUE
Range(s) == {s[i] : i \in 1..Len(s)}

\* --------------------------------------------------------- the batch plan
\* Array.from(new Set(arr)): the first occurrence of each value, in order.
RECURSIVE DedupeFrom(_, _, _)
DedupeFrom(arr, i, acc) ==
  IF i > Len(arr) THEN acc
  ELSE DedupeFrom(arr, i + 1,
                  IF arr[i] \in Range(acc) THEN acc ELSE Append(acc, arr[i]))

\* (faulty variant: Array.from(universeIds), no Set)
KeepAll(arr) == arr
Dedupe(arr) == DedupeFrom(arr, 1, <<>>)

\* .filter((n) => Number.isFinite(n) && n > 0), then the numbers' values
RECURSIVE FilterValid(_)
FilterValid(arr) ==
  IF arr = <<>> THEN <<>>
  ELSE LET x == Head(arr)
           rest == FilterValid(Tail(arr))
       IN IF IsFinite(x) /\ GreaterThanZero(x) THEN <<x.v>> \o rest ELSE rest

Uniq(ids) == FilterValid(Dedupe(ids))

\* chunk(arr, size): for (i = 0; i < arr.length; i += size) out.push(arr.slice(i, i + size))
RECURSIVE ChunkFrom(_, _, _, _)
ChunkFrom(arr, size, i, acc) ==
  IF ~(i < Len(arr)) THEN acc
  ELSE ChunkFrom(arr, size, i + size,
                 Append(acc, SubSeq(arr, i + 1, Min(i + size, Len(arr)))))

chunk(arr, size) == ChunkFrom(arr, size, 0, <<>>)

VotesMaxBatchSize == 100
VotesMaxConcurrency == 5
FavoritesMaxConcurrency == 10

VotesBatchSize(o) == Min(Max(OrDefault(o.batchSize, 50), 1), VotesMaxBatchSize)
VotesConcurrency(o) == Min(Max(OrDefault(o.concurrency, 2), 1), VotesMaxConcurrency)
FavoritesConcurrency(o) ==
  Min(Max(OrDefault(o.concurrency, 4), 1), FavoritesMaxConcurrency)

\* The tasks the cursor ranges over: batches (votes) or uniq, one id each (favorites).
NumTasks(m, b, u) == IF m = "votes" THEN Len(b) ELSE Len(u)
TaskIds(m, b, u, i) == IF m = "votes" THEN b[i] ELSE <<u[i]>>

\* ------------------------------------------------------- the worker pool
\* const my = idx++: the cursor after a claim
\* (faulty variant: the cursor is read and not advanced)
SameIdx(i) == i
NextIdx(i) == i + 1

\* Worker i at `while (idx < n)`: it takes the next index and awaits limiter.wait(),
\* or leaves the loop and its promise fulfils. s = [idx, w, claims]; chunk indices
\* are 1-based here (my = idx + 1 for the code's idx).
\* (faulty variant: a worker that finds the cursor at the end stays in its loop)
LoopHeadSpinning(s, i, n) ==
  IF s.idx < n
  THEN [idx |-> NextIdx(s.idx),
        w |-> [s.w EXCEPT ![i] = [st |-> "waiting", my |-> s.idx + 1]],
        claims |-> [s.claims EXCEPT ![s.idx + 1] = @ \cup {i}]]
  ELSE [s EXCEPT !.w[i] = [st |-> "new", my |-> 0]]
LoopHead(s, i, n) ==
  IF s.idx < n
  THEN [idx |-> NextIdx(s.idx),
        w |-> [s.w EXCEPT ![i] = [st |-> "waiting", my |-> s.idx + 1]],
        claims |-> [s.claims EXCEPT ![s.idx + 1] = @ \cup {i}]]
  ELSE [s EXCEPT !.w[i] = [st |-> "done", my |-> 0]]

\* Array.from({ length: concurrency }, () => worker()): each worker() runs to its
\* first await before the next one is called.
RECURSIVE SpawnFrom(_, _, _, _)
SpawnFrom(s, i, count, n) ==
  IF i > count THEN s ELSE SpawnFrom(LoopHead(s, i, n), i + 1, count, n)

\* (faulty variant: length: concurrency + 1)
OneMoreWorker(c) == c + 1
SpawnCount(c) == c

Spawn(c, n) ==
  SpawnFrom([idx |-> 0,
             w |-> [i \in 1..SpawnCount(c) |-> [st |-> "new", my |-> 0]],
             claims |-> [k \in 1..n |-> {}]],
            1, SpawnCount(c), n)

\* try { ... } catch { out.set(id, 0) } exists in favorites.ts only
\* (faulty variant: no catch at either call site)
CatchesNothing(m) == FALSE
CatchesErrors(m) == m = "favorites"

\* Promise.all: fulfils when every worker's promise has fulfilled,
\* rejects as soon as one has rejected.
\* (faulty variants: Promise.allSettled, Promise.any)
PromiseAllSettled(ws) == \A i \in DOMAIN ws : ws[i].st \in {"done", "failed"}
PromiseAnyFulfilled(ws) == \E i \in DOMAIN ws : ws[i].st = "done"
PromiseAllFulfilled(ws) == \A i \in DOMAIN ws : ws[i].st = "done"
PromiseAllRejected(ws) == \E i \in DOMAIN ws : ws[i].st = "failed"

N == NumTasks(mode, batches, uniq)
Ids(i) == TaskIds(mode, batches, uniq, i)

\* fetchVotesBatch(universeIds, opts) up to its await Promise.all
StartVotes ==
  /\ LET bs == VotesBatchSize(opts)
         c == VotesConcurrency(opts)
         u == Uniq(universeIds)
         b == chunk(u, bs)
         s == Spawn(c, Len(b))
     IN /\ mode' = "votes"
        /\ batchSize' = bs
        /\ concurrency' = c
        /\ uniq' = u
        /\ batches' = b
        /\ idx' = s.idx
        /\ w' = s.w
        /\ claims' = s.claims
        /\ fetched' = [k \in 1..Len(b) |-> 0]
        /\ settledAt' = [k \in 1..Len(b) |-> {}]
  /\ out' = EmptyMap
  /\ pc' = "running"
  /\ UNCHANGED <<universeIds, opts, ret, err, failedAt>>

CallVotes ==
  /\ pc = "idle"
  /\ StartVotes
  /\ UNCHANGED <<pacerVars, fetchVars, cacheVars, jobVars, retryVars>>

\* fetchFavoritesCountBatch(ids, o) up to its await Promise.all
StartFavorites(ids, o) ==
  /\ LET c == FavoritesConcurrency(o)
         u == Uniq(ids)
         s == Spawn(c, Len(u))
     IN /\ mode' = "favorites"
        /\ batchSize' = 1
        /\ concurrency' = c
        /\ uniq' = u
        /\ batches' = <<>>
        /\ idx' = s.idx
        /\ w' = s.w
        /\ claims' = s.claims
        /\ fetched' = [k \in 1..Len(u) |-> 0]
        /\ settledAt' = [k \in 1..Len(u) |-> {}]
  /\ out' = EmptyMap
  /\ pc' = "running"
  /\ universeIds' = ids
  /\ opts' = o
  /\ UNCHANGED <<ret, err, failedAt>>

CallFavorites ==
  /\ pc = "idle"
  /\ StartFavorites(universeIds, opts)
  /\ UNCHANGED <<pacerVars, fetchVars, cacheVars, jobVars, retryVars>>

\* await limiter.wait() returns to worker i, which builds the url and calls
\* fetchJsonWithRetry: its request is in flight until that promise settles.
LimiterGrants(i) ==
  /\ w[i].st = "waiting"
  /\ w' = [w EXCEPT ![i].st = "inFlight"]
  /\ fetched' = [fetched EXCEPT ![w[i].my] = @ + 1]
  /\ UNCHANGED <<mode, pc, universeIds, opts, batchSize, concurrency, uniq, batches,
                 idx, out, ret, err, claims, failedAt, settledAt>>
  /\ UNCHANGED <<pacerVars, fetchVars, cacheVars, jobVars, retryVars>>

\* Number(row.upVotes ?? 0)
VoteInfo(up, down) == [upVotes |-> OrDefault(up, 0), downVotes |-> OrDefault(down, 0)]

\* for (const row of json.data ?? []) out.set(row.id, {...})
SetRows(o, rowIds, info) ==
  [x \in DOMAIN o \cup rowIds |-> IF x \in rowIds THEN info ELSE o[x]]

\* out.set(id, v)
MapSet(o, id, v) == [x \in DOMAIN o \cup {id} |-> IF x = id THEN v ELSE o[x]]

\* Worker i goes back to the loop head after its chunk.
Continue(i) ==
  LET s == LoopHead([idx |-> idx, w |-> w, claims |-> claims], i, N)
  IN /\ idx' = s.idx
     /\ w' = s.w
     /\ claims' = s.claims

\* votes.ts:45-68: the fetch of worker i's chunk fulfils with rows for rowIds.
VotesResponse(i, rowIds, f) ==
  /\ mode = "votes"
  /\ w[i].st = "inFlight"
  /\ out' = SetRows(out, rowIds, VoteInfo(f, f))
  /\ settledAt' = [settledAt EXCEPT ![w[i].my] = {now}]
  /\ Continue(i)
  /\ UNCHANGED <<mode, pc, universeIds, opts, batchSize, concurrency, uniq, batches,
                 ret, err, fetched, failedAt>>
  /\ UNCHANGED <<pacerVars, fetchVars, cacheVars, jobVars, retryVars>>

\* favorites.ts:25-43: out.set(id, Number(json.favoritesCount ?? 0))
FavoritesResponse(i, fc) ==
  /\ mode = "favorites"
  /\ w[i].st = "inFlight"
  /\ out' = MapSet(out, uniq[w[i].my], OrDefault(fc, 0))
  /\ settledAt' = [settledAt EXCEPT ![w[i].my] = {now}]
  /\ Continue(i)
  /\ UNCHANGED <<mode, pc, universeIds, opts, batchSize, concurrency, uniq, batches,
                 ret, err, fetched, failedAt>>
  /\ UNCHANGED <<pacerVars, fetchVars, cacheVars, jobVars, retryVars>>

\* fetchJsonWithRetry rejects (non-retryable status, retries exhausted, bad JSON)
\* or reading the payload throws (json is null):
\* favorites.ts catches it and stores 0; votes.ts lets it reject the worker.
FetchFails(i) ==
  /\ w[i].st = "inFlight"
  /\ failedAt' = Append(failedAt, w[i].my)
  /\ settledAt' = [settledAt EXCEPT ![w[i].my] = {now}]
  /\ IF CatchesErrors(mode)
     THEN /\ out' = MapSet(out, uniq[w[i].my], 0)
          /\ Continue(i)
     ELSE /\ w' = [w EXCEPT ![i].st = "failed"]
          /\ UNCHANGED <<out, idx, claims>>
  /\ UNCHANGED <<mode, pc, universeIds, opts, batchSize, concurrency, uniq, batches,
                 ret, err, fetched>>
  /\ UNCHANGED <<pacerVars, fetchVars, cacheVars, jobVars, retryVars>>

\* await Promise.all(...); return out
Resolve ==
  /\ pc = "running"
  /\ PromiseAllFulfilled(w)
  /\ pc' = "resolved"
  /\ ret' = {out}
  /\ UNCHANGED <<mode, universeIds, opts, batchSize, concurrency, uniq, batches,
                 idx, w, out, err, fetched, claims, failedAt, settledAt>>
  /\ UNCHANGED <<pacerVars, fetchVars, cacheVars, jobVars, retryVars>>

\* await Promise.all(...) throws the first rejection; the other workers go on.
Reject ==
  /\ pc = "running"
  /\ PromiseAllRejected(w)
  /\ pc' = "rejected"
  /\ err' = {failedAt[1]}
  /\ UNCHANGED <<mode, universeIds, opts, batchSize, concurrency, uniq, batches,
                 idx, w, out, ret, fetched, claims, failedAt, settledAt>>
  /\ UNCHANGED <<pacerVars, fetchVars, cacheVars, jobVars, retryVars>>

\* ---------------------------------------------------------------- pacer
\* RateLimiter (scrape/limiter.ts): wait() blocks until minInterval has passed
\* since the last granted wait, grants one caller at a time, oldest first, and
\* records the dispatch instant at each grant; minInterval = 0 is a no-op.
\* new RateLimiter(opts?.minIntervalMs ?? 250)
LimiterInterval(o) == OrDefault(o.minIntervalMs, 250)

\* (faulty variant: the interval is not waited for)
PacerAlwaysOpen(last, t, m) == TRUE
PacerOpen(last, t, m) == \A l \in last : t - l >= m

Grant(c, called) == [who |-> c, called |-> called, at |-> pNow]

\* Caller c calls wait(): it returns at once when nobody is queued and the
\* interval has passed (always so for minInterval = 0), else c queues up.
PacerWait(c) ==
  /\ pSt[c] = "idle"
  /\ Len(pGrants) + Len(pQueue) < MaxWaits
  /\ IF pInterval = 0 \/ (pQueue = <<>> /\ PacerOpen(pLast, pNow, pInterval))
     THEN /\ pSt' = [pSt EXCEPT ![c] = "released"]
          /\ pLast' = {pNow}
          /\ pGrants' = Append(pGrants, Grant(c, pNow))
          /\ UNCHANGED pQueue
     ELSE /\ pSt' = [pSt EXCEPT ![c] = "blocked"]
          /\ pQueue' = Append(pQueue, [who |-> c, called |-> pNow])
          /\ UNCHANGED <<pLast, pGrants>>
  /\ UNCHANGED <<pInterval, pNow>>
  /\ UNCHANGED <<batchVars, fetchVars, cacheVars, jobVars, retryVars>>

\* The oldest blocked caller is released once the interval has passed.
PacerRelease ==
  /\ pQueue # <<>>
  /\ PacerOpen(pLast, pNow, pInterval)
  /\ pSt' = [pSt EXCEPT ![Head(pQueue).who] = "released"]
  /\ pLast' = {pNow}
  /\ pGrants' = Append(pGrants, Grant(Head(pQueue).who, Head(pQueue).called))
  /\ pQueue' = Tail(pQueue)
  /\ UNCHANGED <<pInterval, pNow>>
  /\ UNCHANGED <<batchVars, fetchVars, cacheVars, jobVars, retryVars>>

\* A released caller does its request and is ready to call wait() again.
PacerCallerLoops(c) ==
  /\ pSt[c] = "released"
  /\ pSt' = [pSt EXCEPT ![c] = "idle"]
  /\ UNCHANGED <<pInterval, pNow, pLast, pQueue, pGrants>>
  /\ UNCHANGED <<batchVars, fetchVars, cacheVars, jobVars, retryVars>>

PacerTick ==
  /\ pNow < MaxTime
  /\ pNow' = pNow + 1
  /\ UNCHANGED <<pInterval, pLast, pQueue, pSt, pGrants>>
  /\ UNCHANGED <<batchVars, fetchVars, cacheVars, jobVars, retryVars>>

PacerInit ==
  /\ IdleCall
  /\ JobUnused
  /\ CacheUnused
  /\ universeIds = <<>>
  /\ opts = [batchSize |-> {}, concurrency |-> {}]
  /\ FetchUnused
  /\ RetriesUnused
  /\ \E m \in 0..MaxInterval : pInterval = LimiterInterval([minIntervalMs |-> {m}])
  /\ pNow = 0
  /\ pLast = {}
  /\ pQueue = <<>>
  /\ \E k \in 1..MaxCallers : pSt = [c \in 1..k |-> "idle"]
  /\ pGrants = <<>>

PacerNext ==
  \/ \E c \in DOMAIN pSt : PacerWait(c)
  \/ PacerRelease
  \/ \E c \in DOMAIN pSt : PacerCallerLoops(c)
  \/ PacerTick

SpecPacer == PacerInit /\ [][PacerNext]_vars

\* -------------------------------------------------------------- fetcher
\* The policies the two call sites pass to fetchJsonWithRetry.
VotesPolicy ==
  [maxRetries |-> 7, baseDelayMs |-> 600, maxDelayMs |-> 30000,
   retryOnStatuses |-> {429, 500, 502, 503, 504}]

\* (faulty variant: 404 among the statuses to retry)
FavoritesPolicyRetrying404 ==
  [maxRetries |-> 7, baseDelayMs |-> 800, maxDelayMs |-> 45000,
   retryOnStatuses |-> {404, 429, 500, 502, 503, 504}]
FavoritesPolicy ==
  [maxRetries |-> 7, baseDelayMs |-> 800, maxDelayMs |-> 45000,
   retryOnStatuses |-> {429, 500, 502, 503, 504}]

\* What one request may end in: an HTTP response with a JSON or a garbage
\* body, or a network-level failure.
Http(code, body) == [t |-> "http", code |-> code, body |-> body]
NetworkError == [t |-> "network", code |-> 0, body |-> "none"]
Outcomes ==
  {Http(c, "json") : c \in {200, 404, 429, 500, 502, 503, 504}}
    \cup {Http(200, "garbage"), NetworkError}

\* fetchJsonWithRetry (scrape/http.ts), step 2: a network-level failure or a
\* status of retryOnStatuses is retryable.
Retryable(p, r) == r.t = "network" \/ (r.t = "http" /\ r.code \in p.retryOnStatuses)
Is2xx(r) == r.t = "http" /\ r.code \in 200..299

\* step 3: the sleep before the next attempt
\* (faulty variant: no cap at maxDelay)
BackoffUncapped(p, attempt) == p.baseDelayMs * 2^attempt
Backoff(p, attempt) == Min(p.baseDelayMs * 2^attempt, p.maxDelayMs)

Exhausted(p, attempt) == attempt >= p.maxRetries

See(seen, r, retryable) ==
  [first |-> IF seen = <<>> THEN r ELSE seen.first,
   last |-> r,
   retryable |-> (IF seen = <<>> THEN 0 ELSE seen.retryable)
                   + (IF retryable THEN 1 ELSE 0)]

\* step 1 and the first request
FetchCall(p) ==
  /\ fPhase = "idle"
  /\ fPolicy' = p
  /\ fPhase' = "request"
  /\ fAttempt' = 0
  /\ fRequests' = 1
  /\ UNCHANGED <<fSleeps, fSeen, fError>>
  /\ UNCHANGED <<batchVars, pacerVars, cacheVars, jobVars, retryVars>>

\* steps 2-4: the request in flight ends in r
FetchOutcome(r) ==
  /\ fPhase = "request"
  /\ fSeen' = See(fSeen, r, Retryable(fPolicy, r))
  /\ IF Retryable(fPolicy, r)
     THEN IF Exhausted(fPolicy, fAttempt)
          THEN /\ fPhase' = "failed"
               /\ fError' = {[kind |-> "exhausted", cause |-> r]}
               /\ UNCHANGED <<fAttempt, fSleeps>>
          ELSE /\ fPhase' = "sleeping"
               /\ fSleeps' = Append(fSleeps, Backoff(fPolicy, fAttempt))
               /\ fAttempt' = fAttempt + 1
               /\ UNCHANGED fError
     ELSE IF ~Is2xx(r)
          THEN /\ fPhase' = "failed"
               /\ fError' = {[kind |-> "httpStatus", cause |-> r]}
               /\ UNCHANGED <<fAttempt, fSleeps>>
          ELSE IF r.body # "json"
               THEN /\ fPhase' = "failed"
                    /\ fError' = {[kind |-> "malformed", cause |-> r]}
                    /\ UNCHANGED <<fAttempt, fSleeps>>
               ELSE /\ fPhase' = "ok"
                    /\ UNCHANGED <<fAttempt, fSleeps, fError>>
  /\ UNCHANGED <<fPolicy, fRequests>>
  /\ UNCHANGED <<batchVars, pacerVars, cacheVars, jobVars, retryVars>>

\* the sleep is over: go to step 2
FetchRetry ==
  /\ fPhase = "sleeping"
  /\ fPhase' = "request"
  /\ fRequests' = fRequests + 1
  /\ UNCHANGED <<fPolicy, fAttempt, fSleeps, fSeen, fError>>
  /\ UNCHANGED <<batchVars, pacerVars, cacheVars, jobVars, retryVars>>

FetchInit ==
  /\ IdleCall
  /\ JobUnused
  /\ CacheUnused
  /\ universeIds = <<>>
  /\ opts = [batchSize |-> {}, concurrency |-> {}]
  /\ PacerUnused
  /\ FetchUnused
  /\ RetriesUnused

FetchNext ==
  \/ \E p \in {VotesPolicy, FavoritesPolicy} : FetchCall(p)
  \/ \E r \in Outcomes : FetchOutcome(r)
  \/ FetchRetry

SpecFetch == FetchInit /\ [][FetchNext]_vars

\* ---------------------------------------------------------------- cache
\* JS values as JSON.parse yields them: t is the type tag, n a number's value
\* (or the instant of an ISO-8601 string), s a string's text, m the properties
\* of an object or the elements of an array by index.
Undefined == [t |-> "undefined", n |-> 0, s |-> "", m |-> <<>>]
JNull == [t |-> "null", n |-> 0, s |-> "", m |-> <<>>]
JNum(x) == [t |-> "number", n |-> x, s |-> "", m |-> <<>>]
JStr(x) == [t |-> "string", n |-> 0, s |-> x, m |-> <<>>]
JObj(props) == [t |-> "object", n |-> 0, s |-> "", m |-> props]
JArr(elems) == [t |-> "array", n |-> 0, s |-> "", m |-> elems]

\* new Date(ms).toISOString(): the ISO-8601 text of the instant ms
ToISOString(ms) == [t |-> "string", n |-> ms, s |-> "iso", m |-> <<>>]

\* Date.parse(v): {} is NaN
DateParse(v) == IF v.t = "string" /\ v.s = "iso" THEN {v.n} ELSE {}

\* typeof v
TypeOf(v) == IF v.t \in {"null", "array"} THEN "object" ELSE v.t

\* !v is false
Truthy(v) ==
  CASE v.t \in {"undefined", "null"} -> FALSE
    [] v.t = "number" -> v.n # 0
    [] v.t = "string" -> v.s # ""
    [] OTHER -> TRUE

\* v[key] raises a TypeError
PropThrows(v) == v.t \in {"undefined", "null"}

\* v[key] where it does not raise
Prop(v, key) ==
  IF v.t \in {"object", "array"} /\ key \in DOMAIN v.m THEN v.m[key] ELSE Undefined

\* String(universeId)
String(id) == ToString(id)

MsPerDay == 24 * 60 * 60 * 1000

EmptyCacheFile == JObj([version |-> JNum(1), entries |-> JObj(<<>>)])

\* loadFavoritesCache: what it returns for a file
LoadResult(f) ==
  IF f.cond # "json" THEN EmptyCacheFile          \* readFileSync or JSON.parse threw
  ELSE LET parsed == f.val
       IN IF \/ ~Truthy(parsed)
             \/ Prop(parsed, "version") # JNum(1)
             \/ TypeOf(Prop(parsed, "entries")) # "object"
          THEN EmptyCacheFile
          ELSE parsed

\* (faulty variant: an entry aged exactly maxAgeDays is no longer fresh)
IsFreshStrictlyYounger(entry, maxAgeDays, t) ==
  IF PropThrows(entry) \/ ~Truthy(Prop(entry, "fetchedAt")) THEN FALSE
  ELSE LET parsed == DateParse(Prop(entry, "fetchedAt"))
       IN \E ms \in parsed : t - ms >= 0 /\ t - ms < maxAgeDays * MsPerDay

\* isFresh(entry, maxAgeDays) at the instant t
IsFresh(entry, maxAgeDays, t) ==
  IF PropThrows(entry) \/ ~Truthy(Prop(entry, "fetchedAt")) THEN FALSE
  ELSE LET parsed == DateParse(Prop(entry, "fetchedAt"))
       IN \E ms \in parsed : t - ms >= 0 /\ t - ms <= maxAgeDays * MsPerDay

\* The outcome of a cache call: a value, or an exception.
Returns(op, v) == [op |-> op, threw |-> FALSE, value |-> v]
Throws(op) == [op |-> op, threw |-> TRUE, value |-> Undefined]

\* (faulty variant: a stored entry is used whatever its age)
GetResultIgnoringAge(c, id, maxAgeDays, t) ==
  LET entries == Prop(c, "entries")
  IN IF PropThrows(entries) THEN Throws("get")
     ELSE LET entry == Prop(entries, String(id))
          IN Returns("get", IF Truthy(entry)
                            THEN Prop(entry, "favoritesCount") ELSE JNull)

\* getCachedFavorites(cache, universeId, maxAgeDays)
GetResult(c, id, maxAgeDays, t) ==
  LET entries == Prop(c, "entries")
  IN IF PropThrows(entries) THEN Throws("get")
     ELSE LET entry == Prop(entries, String(id))
          IN Returns("get", IF IsFresh(entry, maxAgeDays, t)
                            THEN Prop(entry, "favoritesCount") ELSE JNull)

\* splitByFreshness(cache, universeIds, maxAgeDays).staleOrMissing
RECURSIVE StaleFrom(_, _, _, _, _)
StaleFrom(entries, ids, i, maxAgeDays, t) ==
  IF i > Len(ids) THEN <<>>
  ELSE LET rest == StaleFrom(entries, ids, i + 1, maxAgeDays, t)
       IN IF IsFresh(Prop(entries, String(ids[i])), maxAgeDays, t)
          THEN rest ELSE <<ids[i]>> \o rest

SplitResult(c, ids, maxAgeDays, t) ==
  LET entries == Prop(c, "entries")
  IN IF ids # <<>> /\ PropThrows(entries) THEN Throws("split")
     ELSE Returns("split", StaleFrom(entries, ids, 1, maxAgeDays, t))

\* (faulty variant: the entries object is replaced by one holding this entry only)
WithEntryAlone(c, id, count, t) ==
  LET entry == JObj([fetchedAt |-> ToISOString(t), favoritesCount |-> JNum(count)])
      key == String(id)
  IN [c EXCEPT !.m.entries.m = [k \in {key} |-> entry]]

\* cache.entries[String(universeId)] = { fetchedAt, favoritesCount }
WithEntry(c, id, count, t) ==
  LET entries == Prop(c, "entries")
      entry == JObj([fetchedAt |-> ToISOString(t), favoritesCount |-> JNum(count)])
      key == String(id)
  IN [c EXCEPT !.m.entries.m =
        [k \in DOMAIN entries.m \cup {key} |-> IF k = key THEN entry ELSE entries.m[k]]]

\* The arguments of a cache call: the IDs, maxAgeDays ({} where the function
\* takes none), the count ({} likewise), Date.now() and the cache passed.
Call(ids, maxAgeDays, count) ==
  [ids |-> ids, maxAgeDays |-> maxAgeDays, count |-> count, at |-> now, before |-> cache]

LoadFavoritesCache ==
  /\ cLoaded = {}
  /\ cLoaded' = {LoadResult(file)}
  /\ cache' = {LoadResult(file)}
  /\ cLast' = Returns("load", LoadResult(file))
  /\ cArgs' = Call(<<>>, {}, {})
  /\ UNCHANGED <<file, now, cTicks, cThrew>>
  /\ UNCHANGED <<batchVars, pacerVars, fetchVars, jobVars, retryVars>>

GetCachedFavorites(id, maxAgeDays) ==
  /\ \E c \in cache :
       /\ cLast' = GetResult(c, id, maxAgeDays, now)
       /\ cArgs' = Call(<<id>>, {maxAgeDays}, {})
       /\ cThrew' = IF GetResult(c, id, maxAgeDays, now).threw
                    THEN cThrew \cup {"get"} ELSE cThrew
  /\ UNCHANGED <<file, cLoaded, cache, now, cTicks>>
  /\ UNCHANGED <<batchVars, pacerVars, fetchVars, jobVars, retryVars>>

SetCachedFavorites(id, count) ==
  /\ cArgs' = Call(<<id>>, {}, {count})
  /\ \E c \in cache :
       IF PropThrows(Prop(c, "entries"))
       THEN /\ cLast' = Throws("set")
            /\ cThrew' = cThrew \cup {"set"}
            /\ UNCHANGED cache
       ELSE /\ cLast' = Returns("set", Undefined)
            /\ cache' = {WithEntry(c, id, count, now)}
            /\ UNCHANGED cThrew
  /\ UNCHANGED <<file, cLoaded, now, cTicks>>
  /\ UNCHANGED <<batchVars, pacerVars, fetchVars, jobVars, retryVars>>

SplitByFreshness(ids, maxAgeDays) ==
  /\ \E c \in cache :
       /\ cLast' = SplitResult(c, ids, maxAgeDays, now)
       /\ cArgs' = Call(ids, {maxAgeDays}, {})
       /\ cThrew' = IF SplitResult(c, ids, maxAgeDays, now).threw
                    THEN cThrew \cup {"split"} ELSE cThrew
  /\ UNCHANGED <<file, cLoaded, cache, now, cTicks>>
  /\ UNCHANGED <<batchVars, pacerVars, fetchVars, jobVars, retryVars>>

\* Date.now() moves on.
ClockMoves(d) ==
  /\ cTicks < MaxTicks
  /\ cTicks' = cTicks + 1
  /\ now' = now + d
  /\ UNCHANGED <<file, cLoaded, cache, cLast, cArgs, cThrew>>
  /\ UNCHANGED <<batchVars, pacerVars, fetchVars, jobVars, retryVars>>

\* ---- the files loadFavoritesCache may find
StartOfRun == 10 * MsPerDay

\* An entry as found in a file: fetched seven days before the run starts,
\* eight days before, or a day after (a clock set back since); with a
\* fetchedAt that does not parse, without one, or null.
FileEntry(fetchedAt) == JObj([fetchedAt |-> fetchedAt, favoritesCount |-> JNum(5)])
FileEntries ==
  {FileEntry(ToISOString(StartOfRun - d * MsPerDay)) : d \in {7, 8, -1}}
  \cup {FileEntry(JStr("last week")), JObj([favoritesCount |-> JNum(5)]), JNull}

\* The entries objects of a file: none, one for "1", or that and a dated one for "2".
EntryMaps ==
  {<<>>}
  \cup {[k \in {"1"} |-> e] : e \in FileEntries}
  \cup {[k \in {"1", "2"} |-> IF k = "1" THEN e ELSE FileEntry(ToISOString(StartOfRun - d * MsPerDay))] :
          e \in FileEntries, d \in {7, 8}}

CacheFileOf(version, entries) == JObj([version |-> version, entries |-> entries])

\* Files that cannot be read or parsed, that hold no object, an object with a
\* wrong or missing version, or version 1 with entries of every kind.
Files ==
  {[cond |-> c, val |-> Undefined] : c \in {"missing", "unreadable", "invalidJson"}}
  \cup {[cond |-> "json", val |-> v] :
          v \in {JNull, JNum(5), JStr("x"), JArr(<<>>), JObj(<<>>)}}
  \cup {[cond |-> "json", val |-> CacheFileOf(v, JObj(<<>>))] :
          v \in {Undefined, JNum(2), JStr("1")}}
  \cup {[cond |-> "json", val |-> CacheFileOf(JNum(1), e)] :
          e \in {Undefined, JNull, JNum(1), JStr("x"), JArr(<<>>)}}
  \cup {[cond |-> "json", val |-> CacheFileOf(JNum(1), JObj(em))] : em \in EntryMaps}

CacheIds == 1..MaxCacheId
IdLists == {<<>>} \cup {<<i>> : i \in CacheIds} \cup {<<i, j>> : i, j \in CacheIds}
MaxAges == {0, 7}
SetCounts == {7}
ClockSteps == {1}

CacheInit ==
  /\ IdleCall
  /\ JobUnused
  /\ universeIds = <<>>
  /\ opts = [batchSize |-> {}, concurrency |-> {}]
  /\ PacerUnused
  /\ FetchUnused
  /\ RetriesUnused
  /\ file \in Files
  /\ cLoaded = {}
  /\ cache = {}
  /\ now = StartOfRun
  /\ cTicks = 0
  /\ cLast = <<>>
  /\ cArgs = <<>>
  /\ cThrew = {}

CacheNext ==
  \/ LoadFavoritesCache
  \/ \E id \in CacheIds : \E a \in MaxAges : GetCachedFavorites(id, a)
  \/ \E id \in CacheIds : \E n \in SetCounts : SetCachedFavorites(id, n)
  \/ \E ids \in IdLists : \E a \in MaxAges : SplitByFreshness(ids, a)
  \/ \E d \in ClockSteps : ClockMoves(d)

SpecCache == CacheInit /\ [][CacheNext]_vars

\* The same calls on a file written by saveFavoritesCache or by hand in the
\* declared shape: version 1 and an entries object.
TypedFiles ==
  {f \in Files :
     /\ f.cond = "json"
     /\ Prop(f.val, "version") = JNum(1)
     /\ Prop(f.val, "entries").t = "object"
     /\ LET em == Prop(f.val, "entries").m
        IN \/ em = <<>>
           \/ /\ "2" \in DOMAIN em
              /\ Prop(em["2"], "fetchedAt") = ToISOString(StartOfRun - 7 * MsPerDay)}

CacheOpsInit ==
  /\ CacheInit
  /\ file \in TypedFiles

SpecCacheOps == CacheOpsInit /\ [][CacheNext]_vars

\* ---- inputs
\* The values an input list of the plan specification is made of.
PlanValues == {NaN, PosInf, Num(-1), Num(0), Num(1), Num(2)}
PlanBatchSizes == {{}, {0}, {1}, {2}, {101}}

BoundedSeq(S, n) == UNION {[1..k -> S] : k \in 0..n}

\* A run depends on the list only through uniq: k valid IDs after an invalid one,
\* the first of them repeated at the end.
DirtyList(k) ==
  <<Num(0)>> \o [i \in 1..k |-> Num(i)] \o (IF k > 0 THEN <<Num(1)>> ELSE <<>>)
RunBatchSizes == {{}, {1}, {2}}
RunConcurrencies == {{}, {1}, {11}}

\* What the upstream may answer: rows for any of the run's IDs and for an ID
\* nobody asked for, with or without vote counts.
ForeignId == MaxSubjects + 1
VoteFields == {{}, {7}}
FavoriteCounts == {{}, {0}, {7}}

PlanInit ==
  /\ IdleCall
  /\ JobUnused
  /\ CacheUnused
  /\ PacerUnused
  /\ FetchUnused
  /\ RetriesUnused
  /\ universeIds \in BoundedSeq(PlanValues, MaxLen)
  /\ opts \in [batchSize : PlanBatchSizes, concurrency : {{}}]

PlanNext == CallVotes \/ CallFavorites

SpecPlan == PlanInit /\ [][PlanNext]_vars

BatchInit ==
  /\ IdleCall
  /\ JobUnused
  /\ CacheUnused
  /\ PacerUnused
  /\ FetchUnused
  /\ RetriesUnused
  /\ universeIds \in {DirtyList(k) : k \in 0..MaxSubjects}
  /\ opts \in [batchSize : RunBatchSizes, concurrency : RunConcurrencies]

\* The workers whose fetchJsonWithRetry call has started and not settled.
InFlight == {i \in DOMAIN w : w[i].st = "inFlight"}

\* The row IDs a response to worker i's request may carry.
RowIdSets(i) == SUBSET (Range(uniq) \cup {ForeignId})

BatchNext ==
  \/ CallVotes
  \/ CallFavorites
  \/ \E i \in DOMAIN w : LimiterGrants(i)
  \/ \E i \in InFlight : \E rowIds \in RowIdSets(i) : \E f \in VoteFields :
       VotesResponse(i, rowIds, f)
  \/ \E i \in InFlight : \E fc \in FavoriteCounts : FavoritesResponse(i, fc)
  \/ \E i \in InFlight : FetchFails(i)
  \/ Resolve
  \/ Reject

SpecBatch == BatchInit /\ [][BatchNext]_vars

\* The batch run when every limiter.wait() is eventually granted and every
\* fetchJsonWithRetry call eventually settles; a settled promise's
\* continuation (the worker's next loop turn, the caller's await Promise.all)
\* is run by the event loop. A response carries the rows of its chunk or none.
Granted(i) == i \in DOMAIN w /\ LimiterGrants(i)

OwnRows(i) == {Range(Ids(w[i].my)), {}}

Settles(i) ==
  /\ i \in InFlight
  /\ \/ \E rowIds \in OwnRows(i) : VotesResponse(i, rowIds, {7})
     \/ FavoritesResponse(i, {7})
     \/ FetchFails(i)

BatchFairNext ==
  \/ CallVotes
  \/ CallFavorites
  \/ \E i \in DOMAIN w : Granted(i)
  \/ \E i \in DOMAIN w : Settles(i)
  \/ Resolve
  \/ Reject

BatchFairness ==
  /\ \A i \in 1..FavoritesMaxConcurrency : WF_vars(Granted(i)) /\ WF_vars(Settles(i))
  /\ WF_vars(Resolve)
  /\ WF_vars(Reject)

SpecBatchFair == BatchInit /\ [][BatchFairNext]_vars /\ BatchFairness

\* ------------------------------------------------------------ the paced run
\* One batch run on the limiter's clock (milliseconds): the workers of
\* votes.ts:37-70 and favorites.ts:17-49 await limiter.wait() once per chunk and
\* then fetchJsonWithRetry, whose attempts follow each other after the backoff
\* sleeps. The limiter is a local of the batch function and is not passed to
\* fetchJsonWithRetry.
MaxClock == 1000   \* the run is followed up to this instant

PolicyOf(m) == IF m = "votes" THEN VotesPolicy ELSE FavoritesPolicy

\* an outbound request of worker i, started now
Request(i, attempt) == [who |-> i, my |-> w[i].my, attempt |-> attempt, at |-> pNow]

Waiter(i) == [who |-> i, called |-> pNow]

\* the workers that called limiter.wait() when they were spawned, in call order
Spawned(ws) ==
  [k \in 1..Cardinality({i \in DOMAIN ws : ws[i].st = "waiting"}) |-> Waiter(k)]

\* worker i is back at the loop head: it calls limiter.wait() for its next chunk
Requeue(q, ws, i) == IF ws[i].st = "waiting" THEN Append(q, Waiter(i)) ELSE q

\* the call: the limiter is built and every worker runs to its first await
PacedCall(m) ==
  /\ pc = "idle"
  /\ IF m = "votes" THEN StartVotes ELSE StartFavorites(universeIds, opts)
  /\ pInterval' = LimiterInterval(opts)
  /\ pQueue' = Spawned(w')
  /\ rAttempt' = [i \in DOMAIN w' |-> 0]
  /\ rWake' = [i \in DOMAIN w' |-> {}]
  /\ UNCHANGED <<pNow, pLast, pSt, pGrants, rRequests>>
  /\ UNCHANGED <<fetchVars, cacheVars, jobVars>>

\* limiter.wait() returns to the oldest waiter, which calls fetchJsonWithRetry:
\* the first request of that call goes out.
PacedGrant ==
  /\ pQueue # <<>>
  /\ PacerOpen(pLast, pNow, pInterval)
  /\ LET i == Head(pQueue).who
     IN /\ w' = [w EXCEPT ![i].st = "inFlight"]
        /\ fetched' = [fetched EXCEPT ![w[i].my] = @ + 1]
        /\ rAttempt' = [rAttempt EXCEPT ![i] = 0]
        /\ rRequests' = Append(rRequests, Request(i, 0))
        /\ pGrants' = Append(pGrants, Grant(i, Head(pQueue).called))
  /\ pLast' = {pNow}
  /\ pQueue' = Tail(pQueue)
  /\ UNCHANGED <<mode, pc, universeIds, opts, batchSize, concurrency, uniq, batches,
                 idx, out, ret, err, claims, failedAt, settledAt>>
  /\ UNCHANGED <<pInterval, pNow, pSt, rWake>>
  /\ UNCHANGED <<fetchVars, cacheVars, jobVars>>

\* the workers whose request is out and unanswered
Outstanding == {i \in DOMAIN w : w[i].st = "inFlight" /\ rWake[i] = {}}

\* the instant the request worker i is waiting on went out
SentAt(i) ==
  LET mine == SelectSeq(rRequests, LAMBDA q : q.who = i)
  IN mine[Len(mine)].at

\* The request of worker i ends in r, some time after it went out:
\* fetchJsonWithRetry sleeps before the next attempt, or settles and the worker
\* goes on as in votes.ts:63-69 and favorites.ts:43-47.
PacedOutcome(i, r) ==
  /\ i \in Outstanding
  /\ pNow > SentAt(i)
  /\ LET p == PolicyOf(mode)
         my == w[i].my
     IN IF Retryable(p, r) /\ ~Exhausted(p, rAttempt[i])
        THEN /\ rWake' = [rWake EXCEPT ![i] = {pNow + Backoff(p, rAttempt[i])}]
             /\ rAttempt' = [rAttempt EXCEPT ![i] = @ + 1]
             /\ UNCHANGED <<idx, w, out, claims, failedAt, settledAt, pQueue>>
        ELSE /\ settledAt' = [settledAt EXCEPT ![my] = {now}]
             /\ UNCHANGED <<rWake, rAttempt>>
             /\ IF Is2xx(r) /\ r.body = "json"
                THEN /\ out' = IF mode = "votes"
                               THEN SetRows(out, Range(Ids(my)), VoteInfo({7}, {7}))
                               ELSE MapSet(out, uniq[my], 7)
                     /\ Continue(i)
                     /\ pQueue' = Requeue(pQueue, w', i)
                     /\ UNCHANGED failedAt
                ELSE /\ failedAt' = Append(failedAt, my)
                     /\ IF CatchesErrors(mode)
                        THEN /\ out' = MapSet(out, uniq[my], 0)
                             /\ Continue(i)
                             /\ pQueue' = Requeue(pQueue, w', i)
                        ELSE /\ w' = [w EXCEPT ![i].st = "failed"]
                             /\ UNCHANGED <<out, idx, claims, pQueue>>
  /\ UNCHANGED <<mode, pc, universeIds, opts, batchSize, concurrency, uniq, batches,
                 ret, err, fetched>>
  /\ UNCHANGED <<pInterval, pNow, pLast, pSt, pGrants, rRequests>>
  /\ UNCHANGED <<fetchVars, cacheVars, jobVars>>

\* The backoff sleep of worker i is over: the next attempt's request goes out.
PacedRetry(i) ==
  /\ rWake[i] = {pNow}
  /\ rWake' = [rWake EXCEPT ![i] = {}]
  /\ rRequests' = Append(rRequests, Request(i, rAttempt[i]))
  /\ UNCHANGED rAttempt
  /\ UNCHANGED <<batchVars, pacerVars, fetchVars, cacheVars, jobVars>>

\* The instants at which a timer is due: the end of a backoff sleep, and the
\* end of the limiter's interval when somebody waits.
Due ==
  {The(rWake[i]) : i \in {j \in DOMAIN rWake : rWake[j] # {}}}
    \cup (IF pQueue = <<>> THEN {}
          ELSE IF pLast = {} THEN {pNow}
          ELSE {Max(pNow, The(pLast) + pInterval)})

\* how long a response may take
Latencies == {100}

\* Time passes until t: no timer is overslept, and a response takes some time.
TimePasses(t) ==
  /\ t > pNow
  /\ t <= MaxClock
  /\ t \in Due \cup (IF Outstanding = {} THEN {} ELSE {pNow + d : d \in Latencies})
  /\ \A d \in Due : t <= d
  /\ pNow' = t
  /\ UNCHANGED <<pInterval, pLast, pQueue, pSt, pGrants>>
  /\ UNCHANGED <<batchVars, fetchVars, cacheVars, jobVars, retryVars>>

PacedLists == {<<Num(1), Num(2)>>, <<Num(1), Num(2), Num(3)>>}
PacedOpts ==
  [batchSize : {{1}}, concurrency : {{1}, {2}}, minIntervalMs : {{}, {100}}]
PacedOutcomes == {Http(200, "json"), Http(503, "json"), Http(404, "json")}

PacedInit ==
  /\ IdleCall
  /\ JobUnused
  /\ CacheUnused
  /\ PacerUnused
  /\ FetchUnused
  /\ RetriesUnused
  /\ universeIds \in PacedLists
  /\ opts \in PacedOpts

PacedNext ==
  \/ \E m \in {"votes", "favorites"} : PacedCall(m)
  \/ PacedGrant
  \/ \E i \in DOMAIN w : \E r \in PacedOutcomes : PacedOutcome(i, r)
  \/ \E i \in DOMAIN w : PacedRetry(i)
  \/ \E t \in 1..MaxClock : TimePasses(t)
  \/ Resolve
  \/ Reject

SpecPaced == PacedInit /\ [][PacedNext]_vars

\* ------------------------------------------------------ the enrichment job
\* main() of jobs/topEarning1500Enriched.ts from the favorites cache refresh on:
\* the ranking (items) and the game details (byId) have been fetched.
FavoritesCacheDays == 7

\* { concurrency: 4, minIntervalMs: 250 }
JobFavoritesOpts == [batchSize |-> {}, concurrency |-> {4}]

\* The one element of a set that holds a single value ({} is null/undefined).

\* Lines 122-131: paidAccess and paidAccessPrice from the details d of a game.
CheapSignals(d) ==
  LET flag == IF d # {} THEN The(d).isPaidAccess ELSE {}
      price == IF d # {} THEN {x \in The(d).price : IsFinite(x)} ELSE {}
  IN [paidAccess |-> IF price # {} THEN {GreaterThanZero(x) : x \in price} ELSE flag,
      paidAccessPrice |-> {x.v : x \in price}]

\* Line 134: (paidAccess == null || paidAccessPrice == null) && typeof d?.rootPlaceId === "number"
NeedsFallback(p, d) ==
  /\ p.paidAccess = {} \/ p.paidAccessPrice = {}
  /\ d # {} /\ The(d).rootPlaceId # {}

\* Lines 137-138: what the fallback learned replaces what was there.
ApplyFallback(p, fb) ==
  [paidAccess |-> IF fb.paidAccess # {} THEN fb.paidAccess ELSE p.paidAccess,
   paidAccessPrice |-> IF fb.paidAccessPrice # {} THEN fb.paidAccessPrice
                       ELSE p.paidAccessPrice]

\* saveFavoritesCache: JSON.stringify of plain objects, strings and finite
\* numbers, read back by JSON.parse, is the same value.
Saved(c) == [cond |-> "json", val |-> c]

\* for (const [id, count] of fetchedFavs.entries()) setCachedFavorites(cache, id, count)
RECURSIVE SetAll(_, _, _, _, _)
SetAll(c, ids, i, m, t) ==
  IF i > Len(ids) THEN c
  ELSE SetAll(IF ids[i] \in DOMAIN m THEN WithEntry(c, ids[i], m[ids[i]], t) ELSE c,
              ids, i + 1, m, t)

\* Lines 78-88: load, split and, when something is stale, the call of
\* fetchFavoritesCountBatch up to its first await. A throw ends main().
JobStart ==
  /\ jPc = "start"
  /\ LET c == LoadResult(file)
         sp == SplitResult(c, items, FavoritesCacheDays, now)
     IN /\ cLoaded' = {c}
        /\ cache' = {c}
        /\ IF sp.threw
           THEN /\ jPc' = "crashed"
                /\ UNCHANGED <<jSplit, jI, batchVars>>
           ELSE /\ jSplit' = [at |-> now, cache |-> c, stale |-> sp.value]
                /\ IF Len(sp.value) > 0
                   THEN /\ StartFavorites([i \in 1..Len(sp.value) |-> Num(sp.value[i])],
                                          JobFavoritesOpts)
                        /\ jPc' = "fetching"
                        /\ UNCHANGED jI
                   ELSE /\ jPc' = "rows"
                        /\ jI' = 1
                        /\ UNCHANGED batchVars
  /\ UNCHANGED <<file, now, cTicks, cLast, cArgs, cThrew>>
  /\ UNCHANGED <<items, details, jPaid, jRows, jFallbacks, jSaves>>
  /\ UNCHANGED <<pacerVars, fetchVars, retryVars>>

\* Lines 89-92, when fetchFavoritesCountBatch has returned its map.
JobWriteBack ==
  /\ jPc = "fetching"
  /\ pc = "resolved"
  /\ \E c \in cache : \E fetchedFavs \in ret :
       LET c2 == SetAll(c, uniq, 1, fetchedFavs, now)
       IN /\ cache' = {c2}
          /\ file' = Saved(c2)
          /\ jSaves' = Append(jSaves, c2)
  /\ jPc' = "rows"
  /\ jI' = 1
  /\ UNCHANGED <<cLoaded, now, cTicks, cLast, cArgs, cThrew>>
  /\ UNCHANGED <<items, details, jSplit, jPaid, jRows, jFallbacks>>
  /\ UNCHANGED <<batchVars, pacerVars, fetchVars, retryVars>>

\* Lines 145-168 for the item at jI, with the paid access values p.
PushRow(p) ==
  /\ \E c \in cache :
       jRows' = Append(jRows,
                  [universeId |-> items[jI],
                   favorites |-> GetResult(c, items[jI], FavoritesCacheDays, now).value,
                   paidAccess |-> p.paidAccess,
                   paidAccessPrice |-> p.paidAccessPrice])
  /\ jI' = jI + 1
  /\ jPc' = IF jI = Len(items) THEN "done" ELSE "rows"
  /\ jPaid' = <<>>

\* Lines 118-139: the next item, up to the await of the fallback if it is called.
JobRow ==
  /\ jPc = "rows"
  /\ jI <= Len(items)
  /\ LET d == details[items[jI]]
         p == CheapSignals(d)
     IN IF NeedsFallback(p, d)
        THEN /\ jPc' = "fallback"
             /\ jPaid' = p
             /\ jFallbacks' = Append(jFallbacks, [item |-> jI, known |-> p, got |-> {}])
             /\ UNCHANGED <<jI, jRows>>
        ELSE /\ PushRow(p)
             /\ UNCHANGED jFallbacks
  /\ UNCHANGED <<items, details, jSplit, jSaves>>
  /\ UNCHANGED <<batchVars, pacerVars, fetchVars, cacheVars, retryVars>>

\* Lines 135-168: fetchPaidAccessFromPlaceDetails returns fb.
JobFallbackReturns(fb) ==
  /\ jPc = "fallback"
  /\ PushRow(ApplyFallback(jPaid, fb))
  /\ jFallbacks' = [jFallbacks EXCEPT ![Len(jFallbacks)].got = {fb}]
  /\ UNCHANGED <<items, details, jSplit, jSaves>>
  /\ UNCHANGED <<batchVars, pacerVars, fetchVars, cacheVars, retryVars>>

\* ---- the job's inputs
MaxItems == 3

\* The ranking: up to MaxItems universe IDs, repeats included.
JobItems == BoundedSeq(CacheIds, MaxItems) \ {<<>>}

\* The cache file the run starts from: none, one of the declared shape, or
\* one with entries: null.
JobFiles ==
  TypedFiles
  \cup {[cond |-> "missing", val |-> Undefined],
        [cond |-> "json", val |-> CacheFileOf(JNum(1), JNull)]}

\* The details of a game as far as the cascade reads them.
Details(flag, price, rootPlaceId) ==
  [isPaidAccess |-> flag, price |-> price, rootPlaceId |-> rootPlaceId]
NoDetails == [id \in CacheIds |-> {}]
RootPlaceOnly == [id \in CacheIds |-> IF id = 1 THEN {Details({}, {}, {9})} ELSE {}]
AllDetails ==
  {{}} \cup {{Details(f, p, r)} : f \in {{}, {TRUE}, {FALSE}},
                                  p \in {{}, {NaN}, {Num(0)}, {Num(25)}},
                                  r \in {{}, {9}}}

\* What fetchPaidAccessFromPlaceDetails may return.
FallbackResults ==
  {[paidAccess |-> {}, paidAccessPrice |-> {}],
   [paidAccess |-> {TRUE}, paidAccessPrice |-> {25}],
   [paidAccess |-> {FALSE}, paidAccessPrice |-> {0}]}

\* What the favorites endpoint may answer.
JobFavoriteCounts == {{0}, {7}}

JobIdle ==
  /\ IdleCall
  /\ universeIds = <<>>
  /\ opts = [batchSize |-> {}, concurrency |-> {}]
  /\ PacerUnused
  /\ FetchUnused
  /\ RetriesUnused
  /\ cLoaded = {}
  /\ cache = {}
  /\ now = StartOfRun
  /\ cTicks = 0
  /\ cLast = <<>>
  /\ cArgs = <<>>
  /\ cThrew = {}
  /\ jPc = "start"
  /\ jSplit = <<>>
  /\ jI = 0
  /\ jPaid = <<>>
  /\ jRows = <<>>
  /\ jFallbacks = <<>>
  /\ jSaves = <<>>

JobInit ==
  /\ JobIdle
  /\ file \in JobFiles
  /\ items \in JobItems
  /\ details \in {NoDetails, RootPlaceOnly}

\* One game, no cache file, every kind of details.
CascadeInit ==
  /\ JobIdle
  /\ file = [cond |-> "missing", val |-> Undefined]
  /\ items = <<1>>
  /\ details \in {[id \in CacheIds |-> IF id = 1 THEN d ELSE {}] : d \in AllDetails}

JobNext ==
  \/ JobStart
  \/ \E i \in DOMAIN w : LimiterGrants(i)
  \/ \E i \in InFlight : \E fc \in JobFavoriteCounts : FavoritesResponse(i, fc)
  \/ \E i \in InFlight : FetchFails(i)
  \/ Resolve
  \/ JobWriteBack
  \/ JobRow
  \/ \E fb \in FallbackResults : JobFallbackReturns(fb)
  \/ \E d \in ClockSteps : ClockMoves(d)

SpecJob == JobInit /\ [][JobNext]_vars

SpecCascade == CascadeInit /\ [][JobNext]_vars

\* The run of main() for games without details: the cascade never asks the
\* fallback, the favorites refresh and the row loop are as above.
RefreshInit ==
  /\ JobIdle
  /\ file \in TypedFiles
  /\ items \in JobItems
  /\ details = NoDetails

RefreshNext ==
  \/ JobStart
  \/ \E i \in DOMAIN w : LimiterGrants(i)
  \/ \E i \in InFlight : \E fc \in JobFavoriteCounts : FavoritesResponse(i, fc)
  \/ \E i \in InFlight : FetchFails(i)
  \/ Resolve
  \/ JobWriteBack
  \/ JobRow
  \/ \E d \in ClockSteps : ClockMoves(d)

SpecRefresh == RefreshInit /\ [][RefreshNext]_vars

\* ------------------------------------------------------------ properties
\* The distinct positive finite IDs of the caller's list.
ValidIdSet == {x.v : x \in {y \in Range(universeIds) : y.k = "num" /\ y.v > 0}}

HasDuplicates(arr) == Cardinality(Range(arr)) < Len(arr)

\* C1: the batch plan's chunks have 1..batchSize IDs each, share no ID, and
\* together hold exactly the distinct positive finite IDs of the input.
C1_PlanPartitionsValidIds ==
  pc # "idle" =>
    /\ batchSize \in 1..VotesMaxBatchSize
    /\ \A i \in 1..N :
         /\ Len(Ids(i)) \in 1..batchSize
         /\ ~HasDuplicates(Ids(i))
    /\ \A i, j \in 1..N : i # j => Range(Ids(i)) \cap Range(Ids(j)) = {}
    /\ UNION {Range(Ids(i)) : i \in 1..N} = ValidIdSet

\* A votes plan of several chunks built from a list with a repeated ID and a
\* non-finite value.
C1_Witness ==
  /\ mode = "votes"
  /\ N >= 2
  /\ HasDuplicates(universeIds)
  /\ Range(universeIds) \cap {NaN, PosInf} # {}

Active == {i \in DOMAIN w : w[i].st \in {"waiting", "inFlight"}}

\* C2: a chunk index is taken from the cursor by one worker only, no two
\* workers hold the same chunk, exactly the indices below the cursor are taken,
\* no chunk is fetched twice and a run that resolves has fetched each once.
C2_ChunkClaimedOnce ==
  pc # "idle" =>
    /\ idx <= N
    /\ \A k \in 1..N : Cardinality(claims[k]) = (IF k <= idx THEN 1 ELSE 0)
    /\ \A i, j \in Active : i # j => w[i].my # w[j].my
    /\ \A k \in 1..N : fetched[k] <= 1
    /\ pc = "resolved" => \A k \in 1..N : fetched[k] = 1

\* A resolved run whose chunks were taken by different workers.
C2_Witness ==
  /\ pc = "resolved"
  /\ N >= 3
  /\ \E k1, k2 \in 1..N : claims[k1] # claims[k2]

MaxConcurrency == IF mode = "votes" THEN VotesMaxConcurrency ELSE FavoritesMaxConcurrency

\* C3: the requests in flight never outnumber the clamped concurrency, which
\* is within 1..5 (votes) or 1..10 (favorites).
C3_InFlightBounded ==
  pc # "idle" =>
    /\ concurrency \in 1..MaxConcurrency
    /\ Cardinality(InFlight) <= concurrency

\* More chunks than workers, and every worker has a request in flight.
C3_Witness ==
  /\ concurrency >= 2
  /\ N > concurrency
  /\ Cardinality(InFlight) = concurrency

\* C4: once a chunk of fetchVotesBatch has failed terminally the call cannot
\* resolve: it rejects with that failure and hands no map to the caller.
C4_StrictFailureRejects ==
  mode = "votes" =>
    /\ failedAt # <<>> => /\ pc \in {"running", "rejected"}
                          /\ pc = "running" => ENABLED Reject
                          /\ ret = {}
    /\ pc = "rejected" => /\ failedAt # <<>>
                          /\ err = {failedAt[1]}
                          /\ ret = {}

\* A rejected votes call whose map already held rows of a chunk that succeeded.
C4_Witness ==
  /\ mode = "votes"
  /\ pc = "rejected"
  /\ DOMAIN out # {}
  /\ ret = {}

\* C5: fetchFavoritesCountBatch never rejects and no worker stops at a failed
\* fetch; it resolves with a map keyed by exactly the distinct valid IDs, every
\* ID fetched once and each failed one carrying 0.
C5_LenientFailureDefaults ==
  mode = "favorites" =>
    /\ pc # "rejected"
    /\ \A i \in DOMAIN w : w[i].st # "failed"
    /\ pc = "resolved" =>
         /\ \A k \in 1..N : fetched[k] = 1
         /\ \A m \in ret : /\ DOMAIN m = ValidIdSet
                           /\ \A k \in Range(failedAt) : m[uniq[k]] = 0
         /\ ret # {}

\* A resolved favorites call of one worker whose first ID failed and whose
\* second ID was fetched afterwards.
C5_Witness ==
  /\ mode = "favorites"
  /\ pc = "resolved"
  /\ concurrency = 1
  /\ N >= 2
  /\ failedAt = <<1>>
  /\ \E m \in ret : m[uniq[1]] = 0 /\ m[uniq[2]] = 7

\* C6: the caller has no map while the call runs or after it rejects; when it
\* has the map every worker has left its loop and the map stays as returned.
C6_ReturnsAfterAllWorkers ==
  /\ pc \in {"idle", "running", "rejected"} => ret = {}
  /\ pc = "resolved" => /\ \A i \in DOMAIN w : w[i].st = "done"
                        /\ ret = {out}

\* A resolved run in which two workers each fetched a chunk.
C6_Witness ==
  /\ pc = "resolved"
  /\ DOMAIN out # {}
  /\ \E k1, k2 \in 1..N : claims[k1] # claims[k2]
  /\ mode = "favorites"

\* C7: the grants of one limiter are pairwise at least minInterval apart, k
\* grants span at least (k-1) * minInterval, and with minInterval = 0 no caller
\* is ever blocked: every wait is granted at the instant it was called.
C7_GrantsSpaced ==
  /\ \A i, j \in DOMAIN pGrants :
       i < j => pGrants[j].at - pGrants[i].at >= (j - i) * pInterval
  /\ pInterval = 0 =>
       /\ pQueue = <<>>
       /\ \A i \in DOMAIN pGrants : pGrants[i].at = pGrants[i].called

\* Three callers called wait() at the same instant with minInterval = 2 and
\* all three have been released.
C7_Witness ==
  /\ pInterval = 2
  /\ Len(pGrants) = 3
  /\ \A i \in DOMAIN pGrants : pGrants[i].called = 0
  /\ {pGrants[i].who : i \in DOMAIN pGrants} = {1, 2, 3}

FetchSettled == fPhase \in {"ok", "failed"}

\* C8: a call that gets r retryable failures and then a 2xx with valid JSON
\* succeeds, with r <= maxRetries, r + 1 requests and r sleeps, sleep i (from
\* 0) being min(baseDelay * 2^i, maxDelay): non-decreasing, none above maxDelay.
C8_RetriesThenSuccess ==
  /\ (FetchSettled /\ fSeen.last = Http(200, "json")) => fPhase = "ok"
  /\ fPhase = "ok" =>
       /\ fSeen.last = Http(200, "json")
       /\ fSeen.retryable <= fPolicy.maxRetries
       /\ fRequests = fSeen.retryable + 1
       /\ Len(fSleeps) = fSeen.retryable
       /\ \A i \in 1..Len(fSleeps) :
            /\ fSleeps[i] = Min(fPolicy.baseDelayMs * 2^(i - 1), fPolicy.maxDelayMs)
            /\ fSleeps[i] <= fPolicy.maxDelayMs
            /\ i > 1 => fSleeps[i] >= fSleeps[i - 1]

\* The votes policy: seven retryable failures, then success; the last sleep is
\* the capped one.
C8_Witness ==
  /\ fPhase = "ok"
  /\ fPolicy = VotesPolicy
  /\ fSeen.retryable = 7
  /\ fSleeps[1] = 600
  /\ fSleeps[7] = 30000

WellFormedCacheFile(v) ==
  /\ v.t = "object"
  /\ Prop(v, "version") = JNum(1)
  /\ Prop(v, "entries").t = "object"

\* C10: whatever the file holds, loadFavoritesCache returns the stored
\* well-formed CacheFile or the empty one, and no getCachedFavorites,
\* setCachedFavorites or splitByFreshness on the loaded cache raises.
C10_LoadFailsSoft ==
  /\ \A c \in cLoaded :
       \/ c = EmptyCacheFile
       \/ file.cond = "json" /\ c = file.val /\ WellFormedCacheFile(c)
  /\ cThrew = {}

\* The caches of type CacheFile: entries is an object (not null, not missing).
HasEntries(c) == Prop(c, "entries").t = "object"

\* The age at the instant t of the entry stored for id: {} when there is no
\* entry or its fetchedAt is no ISO-8601 instant.
EntryAges(c, id, t) ==
  LET entries == Prop(c, "entries").m
      key == String(id)
  IN IF key \notin DOMAIN entries THEN {}
     ELSE LET e == entries[key]
          IN IF e.t = "object" /\ "fetchedAt" \in DOMAIN e.m /\ e.m.fetchedAt.s = "iso"
             THEN {t - e.m.fetchedAt.n} ELSE {}

NotFresh(c, id, maxAgeDays, t) ==
  \/ EntryAges(c, id, t) = {}
  \/ \E age \in EntryAges(c, id, t) : age < 0 \/ age > maxAgeDays * MsPerDay

\* C11: splitByFreshness returns, in input order, exactly the input IDs whose
\* entry is missing, has a fetchedAt that does not parse, or has an age that
\* is negative or above maxAgeDays; an entry aged exactly maxAgeDays is fresh.
C11_SplitReturnsNotFreshInOrder ==
  (cLast # <<>> /\ cLast.op = "split") =>
    \A c \in cArgs.before : \A a \in cArgs.maxAgeDays :
      HasEntries(c) =>
        /\ ~cLast.threw
        /\ cLast.value =
             SelectSeq(cArgs.ids, LAMBDA id : NotFresh(c, id, a, cArgs.at))

\* A split of <<2, 1>> a millisecond into the run with maxAgeDays = 7: the
\* entry of 1 was aged exactly seven days at the start and is stale now, the
\* entry of 2 was written since and is fresh.
C11_Witness ==
  /\ cLast # <<>> /\ cLast.op = "split" /\ ~cLast.threw
  /\ cArgs.ids = <<2, 1>> /\ cArgs.maxAgeDays = {7}
  /\ cLast.value = <<1>>
  /\ \A c \in cArgs.before :
       /\ HasEntries(c)
       /\ EntryAges(c, 1, cArgs.at) = {7 * MsPerDay + 1}
       /\ EntryAges(c, 2, cArgs.at) # {}

\* The favoritesCount stored for id.
StoredCount(c, id) == c.m.entries.m[String(id)].m.favoritesCount

\* C12: getCachedFavorites returns the stored value when the entry of the ID
\* is fresh and null otherwise, also when a stale entry exists; at the
\* instant of the call it is null exactly when splitByFreshness, given the
\* same cache and maxAgeDays, reports the ID as stale or missing.
C12_GetOnlyWhenFresh ==
  (cLast # <<>> /\ cLast.op = "get") =>
    \A c \in cArgs.before : \A a \in cArgs.maxAgeDays :
      HasEntries(c) =>
        LET id == cArgs.ids[1]
            split == SplitResult(c, <<id>>, a, cArgs.at)
        IN /\ ~cLast.threw
           /\ cLast.value = IF NotFresh(c, id, a, cArgs.at)
                             THEN JNull ELSE StoredCount(c, id)
           /\ ~split.threw
           /\ (cLast.value = JNull) <=> (id \in Range(split.value))

\* A get for an ID whose entry is there but a millisecond too old: null.
C12_Witness ==
  /\ cLast # <<>> /\ cLast.op = "get" /\ ~cLast.threw
  /\ cLast.value = JNull
  /\ cArgs.maxAgeDays = {7}
  /\ \A c \in cArgs.before :
       /\ HasEntries(c)
       /\ EntryAges(c, cArgs.ids[1], cArgs.at) = {7 * MsPerDay + 1}
       /\ StoredCount(c, cArgs.ids[1]) = JNum(5)

\* C13: setCachedFavorites replaces the whole entry of the ID by
\* {fetchedAt = now, favoritesCount = v} and leaves the version and every
\* other entry as they were, so the cache holds one entry per ID, that of the
\* latest set; getCachedFavorites and splitByFreshness leave the cache alone.
C13_SetReplacesOneEntry ==
  /\ (cLast # <<>> /\ cLast.op = "set" /\ ~cLast.threw) =>
       \A b \in cArgs.before : \A v \in cArgs.count : \A c \in cache :
         LET key == String(cArgs.ids[1])
             old == b.m.entries.m
             new == c.m.entries.m
         IN /\ DOMAIN c.m = DOMAIN b.m
            /\ c.m.version = b.m.version
            /\ DOMAIN new = DOMAIN old \cup {key}
            /\ new[key] = JObj([fetchedAt |-> ToISOString(cArgs.at),
                                favoritesCount |-> JNum(v)])
            /\ \A k \in DOMAIN old \ {key} : new[k] = old[k]
  /\ (cLast # <<>> /\ cLast.op \in {"get", "split"}) => cache = cArgs.before

\* A second set for ID 1, a millisecond after the first, in a cache that
\* also holds an entry for ID 2 from the file.
C13_Witness ==
  /\ cLast # <<>> /\ cLast.op = "set" /\ ~cLast.threw
  /\ cArgs.ids = <<1>> /\ cArgs.at = StartOfRun + 1
  /\ \A b \in cArgs.before : \A c \in cache :
       /\ "1" \in DOMAIN b.m.entries.m
       /\ Prop(b.m.entries.m["1"], "fetchedAt") = ToISOString(StartOfRun)
       /\ Prop(c.m.entries.m["1"], "fetchedAt") = ToISOString(StartOfRun + 1)
       /\ "2" \in DOMAIN c.m.entries.m
       /\ Prop(c.m.entries.m["2"], "favoritesCount") = JNum(5)

\* The IDs fetchFavoritesCountBatch has requested from the remote API, and
\* those whose fetch failed terminally.
Requested == {uniq[k] : k \in {k \in DOMAIN fetched : fetched[k] > 0}}
Failed == {uniq[k] : k \in Range(failedAt)}

\* The subject's cache entry was fresh when the job split the ranking.
FreshAtSplit(id) == ~NotFresh(jSplit.cache, id, FavoritesCacheDays, jSplit.at)

\* C14: the job fetches only the stale or missing subjects:
\* fetchFavoritesCountBatch gets exactly the list splitByFreshness returned,
\* a subject whose entry was fresh at the split is never requested and its
\* row carries the cached value, and nothing is requested when nothing is stale.
C14_OnlyStaleFetched ==
  jSplit # <<>> =>
    /\ pc # "idle" => universeIds = [i \in 1..Len(jSplit.stale) |-> Num(jSplit.stale[i])]
    /\ jSplit.stale = <<>> => pc = "idle"
    /\ \A id \in Range(items) : FreshAtSplit(id) => id \notin Requested
    /\ \A i \in 1..Len(jRows) :
         FreshAtSplit(jRows[i].universeId) =>
           jRows[i].favorites = StoredCount(jSplit.cache, jRows[i].universeId)

\* C15: with repeats in the ranking, the stale or missing set is the set of
\* subjects without a fresh entry, and the finished job has written one row
\* per distinct subject, a subject whose entry is fresh throughout the run
\* carrying the cached value.
C15_OneRowPerDistinctSubject ==
  jPc = "done" =>
    /\ Range(jSplit.stale) = {id \in Range(items) : ~FreshAtSplit(id)}
    /\ Len(jRows) = Cardinality(Range(items))
    /\ {jRows[i].universeId : i \in 1..Len(jRows)} = Range(items)
    /\ \A i \in 1..Len(jRows) :
         LET id == jRows[i].universeId
         IN ~NotFresh(jSplit.cache, id, FavoritesCacheDays, now) =>
              jRows[i].favorites = StoredCount(jSplit.cache, id)

\* What the details of the item of row i say: the boolean isPaidAccess and
\* the finite price, {} where the payload has none.
FlagOf(i) == IF details[items[i]] = {} THEN {} ELSE The(details[items[i]]).isPaidAccess
PriceOf(i) ==
  IF details[items[i]] = {} THEN {}
  ELSE {x \in The(details[items[i]]).price : IsFinite(x)}

\* The answers of the fallback lookup made for the item of row i.
FallbackOf(i) ==
  UNION {jFallbacks[k].got : k \in {k \in 1..Len(jFallbacks) : jFallbacks[k].item = i}}

\* C16: a row's paidAccess is the boolean isPaidAccess when the payload has
\* one; without it, price > 0 when the payload has a finite price; and what
\* the fallback lookup learned only when the payload has neither.
C16_CascadePrecedence ==
  \A i \in 1..Len(jRows) :
    /\ FlagOf(i) # {} => jRows[i].paidAccess = FlagOf(i)
    /\ (FlagOf(i) = {} /\ PriceOf(i) # {}) =>
         jRows[i].paidAccess = {GreaterThanZero(x) : x \in PriceOf(i)}
    /\ (FlagOf(i) = {} /\ PriceOf(i) = {}) =>
         jRows[i].paidAccess = UNION {fb.paidAccess : fb \in FallbackOf(i)}

\* C17: fetchPaidAccessFromPlaceDetails is called only for an item whose
\* payload has neither a boolean isPaidAccess nor a finite price.
C17_FallbackOnlyWhenUnknown ==
  \A k \in 1..Len(jFallbacks) :
    FlagOf(jFallbacks[k].item) = {} /\ PriceOf(jFallbacks[k].item) = {}

\* The subjects the API answered with a count of 0.
ConfirmedZero == {id \in Requested \ Failed : id \in DOMAIN out /\ out[id] = 0}

\* C18: in the rows, a subject whose favorites fetch failed terminally is
\* reported as unknown (null), and never with the value a subject has for
\* which the API confirmed a count of 0.
C18_UnknownIsNotZero ==
  \A i \in 1..Len(jRows) :
    jRows[i].universeId \in Failed =>
      /\ jRows[i].favorites = JNull
      /\ \A j \in 1..Len(jRows) :
           jRows[j].universeId \in ConfirmedZero =>
             jRows[j].favorites # jRows[i].favorites

\* The entry the cache holds for id: Undefined when it holds none.
EntryOf(c, id) == Prop(Prop(c, "entries"), String(id))

\* C19: every entry written during the run comes from a fetch that
\* succeeded and is dated no earlier than the instant its response arrived;
\* a subject whose fetch failed terminally gets no entry, so the next run's
\* splitByFreshness still reports it.
C19_EntriesFromSuccessfulFetches ==
  jPc \in {"rows", "fallback", "done"} =>
    \A c \in cache : \A k \in DOMAIN uniq :
      LET id == uniq[k]
          written == EntryOf(c, id) # EntryOf(jSplit.cache, id)
      IN /\ written =>
              /\ k \notin Range(failedAt)
              /\ \A t \in settledAt[k] : Prop(EntryOf(c, id), "fetchedAt").n >= t
         /\ k \in Range(failedAt) =>
              /\ ~written
              /\ NotFresh(LoadResult(file), id, FavoritesCacheDays, now)

\* C20: once fetchVotesBatch has rejected, no worker takes a further chunk
\* from the cursor and no further request is dispatched; requests in flight
\* may still settle.
C20_NoClaimAfterAbort ==
  [][(mode = "votes" /\ pc = "rejected") => (idx' = idx /\ fetched' = fetched)]_vars

\* C21: within one batch run any two outbound requests, the retry attempts of
\* fetchJsonWithRetry included, start at least minIntervalMs apart.
C21_RequestsSpaced ==
  \A a, b \in DOMAIN rRequests :
    a < b => rRequests[b].at - rRequests[a].at >= pInterval

\* C22: every key written to the result map is an ID of the chunk whose
\* response is being merged, so no key is written by two chunks and the final
\* map does not depend on the order in which the workers complete.
C22_KeysFromOwnChunk ==
  [][\A k \in DOMAIN out' :
       (k \notin DOMAIN out \/ out'[k] # out[k]) =>
         \E i \in DOMAIN w : /\ w[i].st = "inFlight"
                             /\ w'[i] # w[i]
                             /\ k \in Range(Ids(w[i].my))]_vars

\* The workers of fetchFavoritesCountBatch that have not left their loop.
Running == {i \in DOMAIN w : w[i].st # "done"}

\* C23: in the enrichment job the loaded favorites cache is mutated and saved
\* only when no worker of fetchFavoritesCountBatch is running: every step that
\* changes the cache in memory, the cache file or the list of saves is the one
\* write-back after the batch has returned, it stores every fetched value and
\* saves the result once; it never happens when nothing was stale.
C23_CacheTouchedOutsidePool ==
  [][((cache # {} /\ cache' # cache) \/ file' # file \/ jSaves' # jSaves) =>
       /\ Running = {}
       /\ jSplit # <<>> /\ jSplit.stale # <<>>
       /\ jSaves = <<>>
       /\ \E c \in cache' :
            /\ jSaves' = <<c>>
            /\ file' = Saved(c)
            /\ \A id \in DOMAIN out : StoredCount(c, id) = JNum(out[id])]_vars

\* The write-back happened after two workers had fetched concurrently.
C23_Witness ==
  /\ Len(jSaves) = 1
  /\ Len(uniq) >= 2
  /\ \A k \in DOMAIN claims : Cardinality(claims[k]) = 1
  /\ Cardinality(UNION {claims[k] : k \in DOMAIN claims}) >= 2

\* The workers that have left their loop: returned, or thrown out of it.
Left == {i \in DOMAIN w : w[i].st \in {"done", "failed"}}

\* C24: when every wait is eventually granted and every fetch eventually
\* settles, a batch run that has started eventually finishes: its promise
\* resolves or rejects, never rejects for fetchFavoritesCountBatch, and every
\* worker eventually leaves its loop, returning only when the cursor has
\* reached the number of chunks; so do the workers started when there are
\* fewer chunks than workers or no chunk at all.
C24_RunTerminates ==
  /\ (pc = "running") ~> (pc \in {"resolved", "rejected"})
  /\ (pc = "running") ~> (Left = DOMAIN w)
  /\ [](\A i \in DOMAIN w : w[i].st = "done" => idx = N)
  /\ [](mode = "favorites" => pc # "rejected")

\* A run has finished in which more workers were started than there were
\* chunks, and the workers that got one took turns at the cursor.
C24_Witness ==
  /\ pc \in {"resolved", "rejected"}
  /\ Left = DOMAIN w
  /\ N >= 2
  /\ Len(w) > N
  /\ idx = N

====
